---- MODULE Spec2Model ----
(***************************************************************************)
(* The resilient dependency-invocation layer of the log-service variants:  *)
(*   "retries"  services/day-3/log-service-with-retries/server.js          *)
(*   "timeout"  services/day-3/log-service-with-timeout/server.js          *)
(*   "tracing"  unnamed/part_003 (trace id + handler-wide abort + retries)  *)
(*   "hardened" services/day-4/log-service-hardened/server.js              *)
(* One inbound request is followed from the middleware to res.json().      *)
(* Time is a discrete-event clock in milliseconds: every pending timer,    *)
(* outbound fetch, body read and backoff sleep has an absolute due time    *)
(* and the events fire in time order.                                      *)
(***************************************************************************)
EXTENDS Integers, Sequences, FiniteSets, TLC

(* ---------------------------- bounds ----------------------------------- *)

\* Math.random() is modelled as k / RandomResolution, 0 <= k < RandomResolution
RandomResolution == 100

\* number of evenly spread values of Math.random() that are explored
\* (the smallest and the largest value are always among them)
RandomPoints == 2

\* number of inbound requests handled concurrently
NumRequests == 2

(* ------------------------ program constants ---------------------------- *)

MAX_RETRIES == 3

DefaultRetriesLeft == 3

\* parseInt(req.query.work) || 100
DefaultWorkUnits == 100

BackoffBase == 100

JitterCeiling == 50

\* const FLAKY_RATE = 0.5, in percent
FLAKY_RATE_PERCENT == 50

HandlerTimeoutMs == 1000

AttemptTimeoutMs == 5000

Variants == {"retries", "timeout", "tracing", "hardened"}

\* variants whose handler calls the dependency through fetchWithRetry
RetryVariants == {"retries", "tracing", "hardened"}

\* variants whose handler arms one AbortController timer around the call
HandlerTimerVariants == {"timeout", "tracing"}

(* ------------------------ environment inputs --------------------------- *)

\* req.headers['x-request-id']: absent, empty, or a caller-supplied value
Undefined == "<undefined>"

InboundHeaders == {Undefined, "", "abc"}

\* values crypto.randomUUID() can return
UUIDs == {"uuid-1", "uuid-2", "uuid-3"}

\* process.env.DEPENDENCY_URL: not set, empty, or set to something that is no URL
EnvDependencyUrls == {Undefined, "", "echo-service:8080 /info"}

DefaultDependencyUrl == "http://echo-service:8080/info"

\* HTTP statuses the dependency answers with
Statuses == {200, 404, 500}

\* time from dispatch to the arrival of the response headers or of the
\* transport error, and from response.json() to the end of the body
Latencies == {20, 3000}

\* what the dependency does with one outbound call
DepBehaviours ==
    [kind : {"status"}, status : Statuses, latency : Latencies]
    \cup [kind : {"neterr"}, status : {0}, latency : Latencies]
    \cup [kind : {"hang"}, status : {0}, latency : {0}]

\* what the response body does once response.json() reads it
BodyBehaviours ==
    [kind : {"json", "garbage"}, latency : Latencies]
    \cup [kind : {"stall"}, latency : {0}]

RandomSamples ==
    {(i * (RandomResolution - 1)) \div (RandomPoints - 1) : i \in 0..(RandomPoints - 1)}

(* --------------------------- pure helpers ------------------------------ *)

RECURSIVE Pow2(_)
Pow2(n) == IF n <= 0 THEN 1 ELSE 2 * Pow2(n - 1)

\* variant of attemptOf: the attempt number counted from 0
attemptOfZeroBased(r) == MAX_RETRIES - r

\* const attempt = MAX_RETRIES - retriesLeft + 1
attemptOf(r) == MAX_RETRIES - r + 1

\* variant of backoffOf: the same base delay before every retry
backoffOfConstant(r) == BackoffBase

\* variant of backoffOf: the delay grows linearly with the attempt number
backoffOfLinear(r) == BackoffBase * attemptOf(r)

\* const backoff = 100 * Math.pow(2, attempt - 1)
backoffOf(r) == BackoffBase * Pow2(attemptOf(r) - 1)

\* variant of jitterOf: the jitter ranges over 0..99
jitterOfWide(k) == (k * 2 * JitterCeiling) \div RandomResolution

\* const jitter = Math.floor(Math.random() * 50), Math.random() = k / RandomResolution
jitterOf(k) == (k * JitterCeiling) \div RandomResolution

\* const delay = backoff + jitter
delayOf(r, k) == backoffOf(r) + jitterOf(k)

\* variant of IsOk: 200 itself is not accepted
IsOkStrict(status) == status > 200 /\ status <= 299

\* response.ok
IsOk(status) == status >= 200 /\ status <= 299

\* variant of IsClientError: no upper limit, a 5xx counts as a client error
IsClientErrorWide(status) == status >= 400

\* response.status >= 400 && response.status < 500
IsClientError(status) == status >= 400 /\ status < 500

\* variant of NoMoreRetries: gives up while one retry is left
NoMoreRetriesEarly(r) == r <= 1

\* variant of NoMoreRetries: gives up one call too late
NoMoreRetriesLate(r) == r < 0

\* if (retriesLeft === 0) throw error
NoMoreRetries(r) == r = 0

\* variant of traceIdOf: ?? in place of ||, an empty header is kept
traceIdOfNullish(h, uuid) == IF h = Undefined THEN uuid ELSE h

\* req.headers['x-request-id'] || crypto.randomUUID()
traceIdOf(h, uuid) == IF h = Undefined \/ h = "" THEN uuid ELSE h

\* process.env.DEPENDENCY_URL || "http://echo-service:8080/info"
dependencyUrlOf(env) == IF env = Undefined \/ env = "" THEN DefaultDependencyUrl ELSE env

\* whether fetch() can parse its first argument as an absolute URL
IsValidUrl(url) == url = DefaultDependencyUrl

\* `Server returned ${response.status}`
ServerReturned(status) ==
    CASE status = 200 -> "Server returned 200"
      [] status = 404 -> "Server returned 404"
      [] status = 500 -> "Server returned 500"
      [] OTHER -> "Server returned ?"

\* `Dependency returned ${response.status}`
DependencyReturned(status) ==
    CASE status = 200 -> "Dependency returned 200"
      [] status = 404 -> "Dependency returned 404"
      [] status = 500 -> "Dependency returned 500"
      [] OTHER -> "Dependency returned ?"

\* the errors fetch(), response.json() and fetchWithRetry raise
AbortError == [name |-> "AbortError", message |-> "This operation was aborted"]

FetchFailed == [name |-> "TypeError", message |-> "fetch failed"]

InvalidUrlError == [name |-> "TypeError", message |-> "Failed to parse URL"]

BodySyntaxError == [name |-> "SyntaxError", message |-> "Unexpected token"]

ServerError(status) == [name |-> "Error", message |-> ServerReturned(status)]

\* the values the handlers give to dependencyInfo
NullInfo == [tag |-> "null", error |-> "", degraded |-> FALSE]

DataInfo == [tag |-> "data", error |-> "", degraded |-> FALSE]

ErrorInfo(msg) == [tag |-> "error", error |-> msg, degraded |-> FALSE]

TimeoutInfo == [tag |-> "error", error |-> "upstream_dependency_timeout", degraded |-> TRUE]

NoDep == [kind |-> "none", status |-> 0, at |-> 0, started |-> 0]

\* variant of echoTraceIdOf: only a missing header is logged as "unknown"
echoTraceIdOfNullish(h) == IF h = Undefined THEN "unknown" ELSE h

\* echo-service: req.headers['x-request-id'] || "unknown"
echoTraceIdOf(h) == IF h = Undefined \/ h = "" THEN "unknown" ELSE h

\* options = {} : the default second argument of fetchWithRetry
NoOptions == [signal |-> FALSE, xRequestId |-> Undefined]

NoBody == [kind |-> "none", at |-> 0]

\* nothing sent yet
NoResBody == [message |-> "", received |-> "", enrichment |-> NullInfo, environment |-> ""]

(* ------------------------------ state ---------------------------------- *)

VARIABLES
    variant,        \* which server.js handles the request
    header,         \* req.headers['x-request-id'] of the inbound request
    traceId,        \* req.traceId
    pc,             \* where the request is: idle, routed, fetching, sleeping, body, done
    now,            \* clock, ms since the request arrived
    retriesLeft,    \* parameter of the running fetchWithRetry call
    attempts,       \* number of fetch() calls made for the request
    outcomes,       \* how each fetch() call ended, in order
    delays,         \* the delays passed to sleep(), in order
    console,        \* the lines written with console.log / warn / error
    sleepUntil,     \* due time of the running sleep()
    dep,            \* the fetch() in flight and what the dependency does with it
    body,           \* the response.json() in progress
    timers,         \* pending setTimeout(() => controller.abort(), ...) timers
    aborted,        \* controller.signal.aborted of the handler's controller
    returned,       \* how fetchWithRetry (or the bare fetch) ended for the handler
    dependencyInfo, \* the handler's dependencyInfo, sent as enrichment
    sent,           \* number of res.json() calls
    resStatus,      \* status code of the response sent
    resBody,        \* the object passed to res.json()
    respondedAt,    \* clock value at res.json()
    options,        \* the options object the handler passes to fetch / fetchWithRetry
    outbound,       \* the X-Request-ID header of each fetch() call, in order
    echoConsole,    \* what echo-service logged for the calls that reached it
    bodyResult,     \* how response.json() ended: none, parsed, unparsable, aborted
    dependencyUrl,  \* DEPENDENCY_URL of the process
    cReq,           \* part_003 under two concurrent requests: the state of each request
    cUuids,         \* the ids crypto.randomUUID() has handed out to them
    comp,           \* compute-service: the state of each /compute request
    immediateQueue, \* setImmediate callbacks the event loop is running in this check phase
    pendingImmediates, \* setImmediate callbacks scheduled for the next check phase
    lastChunk,      \* the request that ran the most recent chunk of work (0: none)
    echo            \* flaky echo-service: one request on its way through the middleware

vars == <<variant, header, traceId, pc, now, retriesLeft, attempts, outcomes,
          delays, console, sleepUntil, dep, body, timers, aborted, returned,
          dependencyInfo, sent, resStatus, resBody, respondedAt,
          options, outbound, echoConsole, bodyResult, dependencyUrl>>

concVars == <<cReq, cUuids>>

computeVars == <<comp, immediateQueue, pendingImmediates, lastChunk>>

echoVars == <<echo>>

allVars == <<vars, concVars, computeVars, echoVars>>

\* the part of the state the handler code works on, as one record
Cur ==
    [pc |-> pc, now |-> now, retriesLeft |-> retriesLeft, attempts |-> attempts,
     outcomes |-> outcomes, delays |-> delays, console |-> console,
     sleepUntil |-> sleepUntil, dep |-> dep, body |-> body, timers |-> timers,
     aborted |-> aborted, returned |-> returned, dependencyInfo |-> dependencyInfo,
     sent |-> sent, resStatus |-> resStatus, resBody |-> resBody,
     respondedAt |-> respondedAt, options |-> options, outbound |-> outbound,
     echoConsole |-> echoConsole, bodyResult |-> bodyResult]

Install(s) ==
    /\ pc' = s.pc
    /\ now' = s.now
    /\ retriesLeft' = s.retriesLeft
    /\ attempts' = s.attempts
    /\ outcomes' = s.outcomes
    /\ delays' = s.delays
    /\ console' = s.console
    /\ sleepUntil' = s.sleepUntil
    /\ dep' = s.dep
    /\ body' = s.body
    /\ timers' = s.timers
    /\ aborted' = s.aborted
    /\ returned' = s.returned
    /\ dependencyInfo' = s.dependencyInfo
    /\ sent' = s.sent
    /\ resStatus' = s.resStatus
    /\ resBody' = s.resBody
    /\ respondedAt' = s.respondedAt
    /\ options' = s.options
    /\ outbound' = s.outbound
    /\ echoConsole' = s.echoConsole
    /\ bodyResult' = s.bodyResult

NotReturned == [kind |-> "none", status |-> 0, attempt |-> 0, name |-> "", message |-> ""]

\* the requests of the concurrent runs have not reached the middleware yet
ConcIdle ==
    /\ cReq = [i \in 1..NumRequests |->
                [header |-> Undefined, traceId |-> Undefined, pc |-> "idle",
                 retriesLeft |-> DefaultRetriesLeft, options |-> NoOptions,
                 aborted |-> FALSE, timerArmed |-> FALSE, sent |-> << >>,
                 enrichment |-> NullInfo.tag]]
    /\ cUuids = {}

\* the request has arrived and no code has run for it
MainStart ==
    /\ traceId = Undefined
    /\ pc = "idle"
    /\ now = 0
    /\ retriesLeft = DefaultRetriesLeft
    /\ attempts = 0
    /\ outcomes = << >>
    /\ delays = << >>
    /\ console = << >>
    /\ sleepUntil = 0
    /\ dep = NoDep
    /\ body = NoBody
    /\ timers = {}
    /\ aborted = FALSE
    /\ returned = NotReturned
    /\ dependencyInfo = NullInfo
    /\ sent = 0
    /\ resStatus = 0
    /\ resBody = NoResBody
    /\ respondedAt = 0
    /\ options = NoOptions
    /\ outbound = << >>
    /\ echoConsole = << >>
    /\ bodyResult = "none"

\* compute-service has no request and an empty event loop
ComputeIdle ==
    /\ comp = [i \in 1..NumRequests |->
                [state |-> "none", workUnits |-> 0, remaining |-> 0, chunks |-> 0]]
    /\ immediateQueue = << >>
    /\ pendingImmediates = << >>
    /\ lastChunk = 0

\* a request of the flaky echo-service as it arrives
EchoRequest(method, path, reqBody, delayMs) ==
    [method |-> method, path |-> path, body |-> reqBody, delayMs |-> delayMs,
     stage |-> "running", at |-> 1, trail |-> << >>, finishListener |-> FALSE,
     responses |-> 0, status |-> 0, delayed |-> FALSE, counted |-> 0, logged |-> 0]

\* the flaky echo-service has no request
EchoIdle == echo = [EchoRequest("", "", "none", 0) EXCEPT !.stage = "absent"]

Init ==
    /\ variant \in Variants
    /\ header \in InboundHeaders
    /\ dependencyUrl \in {dependencyUrlOf(env) : env \in EnvDependencyUrls}
    /\ MainStart
    /\ ConcIdle
    /\ ComputeIdle
    /\ EchoIdle

(* ----------------------------- logging --------------------------------- *)

LogLine == [who |-> "", text |-> "", attempt |-> 0, delay |-> 0, retriesLeft |-> -1,
            message |-> "", traceId |-> Undefined, headers |-> Undefined]

ConsoleWrite(s, line) == [s EXCEPT !.console = Append(@, line)]

\* what one fetch() call came to (observed, not used by the code)
Observe(s, kind, status) ==
    [s EXCEPT !.outcomes = Append(@, [attempt |-> s.attempts, kind |-> kind, status |-> status])]

(* ------------------------- the route handler --------------------------- *)

\* variant of fetchOptionsOf: the inbound header is forwarded, not req.traceId
fetchOptionsOfInbound ==
    CASE variant = "tracing" -> [signal |-> TRUE, xRequestId |-> header]
      [] variant = "timeout" -> [signal |-> TRUE, xRequestId |-> Undefined]
      [] OTHER -> NoOptions

\* the options the handler passes: { signal, headers: {'X-Request-ID': req.traceId} }
\* in part_003, { signal } in log-service-with-timeout, none elsewhere
fetchOptionsOf ==
    CASE variant = "tracing" -> [signal |-> TRUE, xRequestId |-> traceId]
      [] variant = "timeout" -> [signal |-> TRUE, xRequestId |-> Undefined]
      [] OTHER -> NoOptions

\* finally { clearTimeout(timeoutId) } of the handler's own timer
ClearHandlerTimeout(s) == [s EXCEPT !.timers = {t \in @ : t.owner # 0}]

\* variant of Respond: a failed dependency call is passed on as a 502 without the primary fields
RespondFailing(s, info) ==
    [s EXCEPT !.dependencyInfo = info, !.sent = @ + 1,
              !.resStatus = IF info.tag = "error" THEN 502 ELSE 200,
              !.resBody = IF info.tag = "error"
                          THEN [NoResBody EXCEPT !.enrichment = info]
                          ELSE [message |-> "Hello from log-service",
                                received |-> "method, path, headers",
                                enrichment |-> info,
                                environment |-> "hostname, version, logLevel"],
              !.respondedAt = s.now, !.pc = "done"]

\* res.json({message, received, enrichment: dependencyInfo, environment})
Respond(s, info) ==
    [s EXCEPT !.dependencyInfo = info, !.sent = @ + 1, !.resStatus = 200,
              !.resBody = [message |-> "Hello from log-service",
                           received |-> "method, path, headers",
                           enrichment |-> info,
                           environment |-> "hostname, version, logLevel"],
              !.respondedAt = s.now, !.pc = "done"]

HandlerFinish(s, info) == Respond(ClearHandlerTimeout(s), info)

\* variant of HandlerCatch: no separate case for AbortError
HandlerCatchPlain(s, err) ==
    HandlerFinish(
        ConsoleWrite(s, [LogLine EXCEPT !.who = "handler",
                                        !.text = "Dependency call failed:",
                                        !.message = err.message]),
        ErrorInfo(err.message))

\* catch (error) { ... } of the route handler
HandlerCatch(s, err) ==
    IF variant \in HandlerTimerVariants /\ err.name = "AbortError"
    THEN HandlerFinish(
            ConsoleWrite(s, [LogLine EXCEPT !.who = "handler",
                                            !.text = "Dependency call timed out"]),
            TimeoutInfo)
    ELSE HandlerFinish(
            ConsoleWrite(s, [LogLine EXCEPT !.who = "handler",
                                            !.text = "Dependency call failed:",
                                            !.message = err.message]),
            ErrorInfo(err.message))

\* variant of HandlerOnResponse: the body is read whatever the status
HandlerOnResponseAlwaysJson(s, status, b) ==
    [s EXCEPT !.pc = "body", !.body = [kind |-> b.kind, at |-> s.now + b.latency]]

\* if (response.ok) dependencyInfo = await response.json(); else {error: ...}
HandlerOnResponse(s, status, b) ==
    IF IsOk(status)
    THEN [s EXCEPT !.pc = "body", !.body = [kind |-> b.kind, at |-> s.now + b.latency]]
    ELSE HandlerFinish(s, ErrorInfo(DependencyReturned(status)))

(* --------------------------- fetchWithRetry ---------------------------- *)

Returned(kind, status, r, err) ==
    [kind |-> kind, status |-> status, attempt |-> attemptOf(r),
     name |-> err.name, message |-> err.message]

NoError == [name |-> "", message |-> ""]

\* variant of CatchBlock: the retries also stop once a second has gone by
CatchBlockWithDeadline(s, err, k) ==
    IF NoMoreRetries(s.retriesLeft) \/ s.now >= HandlerTimeoutMs
    THEN HandlerCatch([s EXCEPT !.returned = Returned("throw", 0, s.retriesLeft, err)], err)
    ELSE LET delay == delayOf(s.retriesLeft, k)
             line == [LogLine EXCEPT !.who = "fetchWithRetry",
                                     !.text = "Request failed. Retrying",
                                     !.message = err.message,
                                     !.delay = delay,
                                     !.retriesLeft = s.retriesLeft]
         IN [ConsoleWrite(s, line) EXCEPT !.delays = Append(@, delay),
                                          !.pc = "sleeping",
                                          !.sleepUntil = s.now + delay]

\* catch (error) { if (retriesLeft === 0) throw error; ...; await sleep(delay); ... }
CatchBlock(s, err, k) ==
    IF NoMoreRetries(s.retriesLeft)
    THEN HandlerCatch([s EXCEPT !.returned = Returned("throw", 0, s.retriesLeft, err)], err)
    ELSE LET delay == delayOf(s.retriesLeft, k)
             line == [LogLine EXCEPT !.who = "fetchWithRetry",
                                     !.text = "Request failed. Retrying",
                                     !.message = err.message,
                                     !.delay = delay,
                                     !.retriesLeft = s.retriesLeft]
         IN [ConsoleWrite(s, line) EXCEPT !.delays = Append(@, delay),
                                          !.pc = "sleeping",
                                          !.sleepUntil = s.now + delay]

\* variant of ClearAttemptTimeout: the timer is left armed
ClearAttemptTimeoutNever(s) == s

\* clearTimeout(timeoutId) of the attempt's own timer (log-service-hardened)
ClearAttemptTimeout(s) ==
    IF variant = "hardened"
    THEN [s EXCEPT !.timers = {t \in @ : t.owner # attemptOf(s.retriesLeft)}]
    ELSE s

\* variant of FetchResolved: the 4xx case is missing, every non-2xx response is thrown
FetchResolvedNo4xxCase(s, status, b, k) ==
    LET s1 == ClearAttemptTimeout(s)
    IN IF IsOk(status)
       THEN HandlerOnResponse(
                [ConsoleWrite(s1, [LogLine EXCEPT !.who = "fetchWithRetry",
                                                  !.text = "Dependency call succeeded",
                                                  !.attempt = attemptOf(s.retriesLeft)])
                    EXCEPT !.returned = Returned("response", status, s.retriesLeft, NoError)],
                status, b)
       ELSE CatchBlock(s1, ServerError(status), k)

\* the try block of fetchWithRetry after `await fetch(...)` gave a response
FetchResolved(s, status, b, k) ==
    LET s1 == ClearAttemptTimeout(s)
    IN IF IsOk(status)
       THEN HandlerOnResponse(
                [ConsoleWrite(s1, [LogLine EXCEPT !.who = "fetchWithRetry",
                                                  !.text = "Dependency call succeeded",
                                                  !.attempt = attemptOf(s.retriesLeft)])
                    EXCEPT !.returned = Returned("response", status, s.retriesLeft, NoError)],
                status, b)
       ELSE IF IsClientError(status)
       THEN HandlerOnResponse(
                [s1 EXCEPT !.returned = Returned("response", status, s.retriesLeft, NoError)],
                status, b)
       ELSE CatchBlock(s1, ServerError(status), k)

\* `await fetch(...)` rejected: the catch block of fetchWithRetry, or of the
\* handler where fetch is called directly (log-service-with-timeout)
Rejected(s, err, k) ==
    IF variant = "timeout"
    THEN HandlerCatch([s EXCEPT !.returned = Returned("throw", 0, s.retriesLeft, err)], err)
    ELSE CatchBlock(s, err, k)

\* variant of Fetch: a signal that is already aborted is not looked at
FetchIgnoringSignal(s, d, k) ==
    IF ~IsValidUrl(dependencyUrl)
    THEN Rejected(Observe([s EXCEPT !.attempts = @ + 1,
                                    !.outbound = Append(@, s.options.xRequestId)],
                          "badurl", 0),
                  InvalidUrlError, k)
    ELSE [s EXCEPT !.pc = "fetching",
                   !.attempts = @ + 1,
                   !.outbound = Append(@, s.options.xRequestId),
                   !.echoConsole =
                       IF d.kind = "status"
                       THEN Append(@, [received |-> s.options.xRequestId,
                                       traceId |-> echoTraceIdOf(s.options.xRequestId)])
                       ELSE @,
                   !.dep = [kind |-> d.kind, status |-> d.status,
                            at |-> s.now + d.latency, started |-> s.now]]

\* fetch(url, {signal}) called: rejected at once when the url cannot be
\* parsed or the signal is already aborted, otherwise the call goes out to
\* the dependency
Fetch(s, d, k) ==
    IF ~IsValidUrl(dependencyUrl)
    THEN Rejected(Observe([s EXCEPT !.attempts = @ + 1,
                                    !.outbound = Append(@, s.options.xRequestId)],
                          "badurl", 0),
                  InvalidUrlError, k)
    ELSE IF variant = "tracing" /\ s.aborted
    THEN CatchBlock(Observe([s EXCEPT !.attempts = @ + 1,
                                      !.outbound = Append(@, s.options.xRequestId)],
                            "preaborted", 0),
                    AbortError, k)
    ELSE [s EXCEPT !.pc = "fetching",
                   !.attempts = @ + 1,
                   !.outbound = Append(@, s.options.xRequestId),
                   !.echoConsole =
                       IF d.kind = "status"
                       THEN Append(@, [received |-> s.options.xRequestId,
                                       traceId |-> echoTraceIdOf(s.options.xRequestId)])
                       ELSE @,
                   !.dep = [kind |-> d.kind, status |-> d.status,
                            at |-> s.now + d.latency, started |-> s.now]]

\* fetchWithRetry(url, options, r) up to its first await
fetchWithRetry(s, r, d, k) ==
    LET s1 == [s EXCEPT !.retriesLeft = r]
        s2 == IF variant = "hardened"
              THEN [s1 EXCEPT !.timers = @ \cup {[owner |-> attemptOf(r),
                                                  at |-> s.now + AttemptTimeoutMs]}]
              ELSE s1
    IN Fetch(s2, d, k)

(* ------------------------------- events -------------------------------- *)

\* due times of everything that is pending
DueTimes ==
    {t.at : t \in timers}
    \cup (IF pc = "fetching" /\ dep.kind # "hang" THEN {dep.at} ELSE {})
    \cup (IF pc = "sleeping" THEN {sleepUntil} ELSE {})
    \cup (IF pc = "body" /\ body.kind # "stall" THEN {body.at} ELSE {})

\* the event loop runs what is due first
IsNext(t) == \A u \in DueTimes : t <= u

(* ------------------------------ actions -------------------------------- *)

\* app.use((req, res, next) => {...}): the logging / trace-id middleware
Middleware ==
    /\ pc = "idle"
    /\ \E uuid \in UUIDs :
         LET id == IF variant = "tracing" THEN traceIdOf(header, uuid) ELSE Undefined
             line == [LogLine EXCEPT !.who = "middleware",
                                     !.text = "Handling request",
                                     !.traceId = id,
                                     !.headers = IF variant \in {"retries", "timeout"}
                                                 THEN header ELSE Undefined]
         IN /\ traceId' = id
            /\ Install([ConsoleWrite(Cur, line) EXCEPT !.pc = "routed"])
    /\ UNCHANGED <<variant, header, dependencyUrl>>
    /\ UNCHANGED <<concVars, computeVars, echoVars>>

\* app.all("*", async (req, res) => {...}) up to its first await
HandlerStart ==
    /\ pc = "routed"
    /\ \E d \in DepBehaviours, k \in RandomSamples :
         LET s0 == ConsoleWrite(Cur, [LogLine EXCEPT !.who = "handler",
                                                     !.text = "Calling dependency"])
             s1 == IF variant \in HandlerTimerVariants
                   THEN [s0 EXCEPT !.options = fetchOptionsOf,
                                   !.timers = @ \cup {[owner |-> 0,
                                                       at |-> s0.now + HandlerTimeoutMs]}]
                   ELSE [s0 EXCEPT !.options = fetchOptionsOf]
         IN Install(IF variant = "timeout"
                    THEN Fetch(s1, d, k)
                    ELSE fetchWithRetry(s1, DefaultRetriesLeft, d, k))
    /\ UNCHANGED <<variant, header, traceId, dependencyUrl>>
    /\ UNCHANGED <<concVars, computeVars, echoVars>>

\* the fetch in flight is answered (response headers) or fails in transport
FetchSettles ==
    /\ pc = "fetching"
    /\ dep.kind \in {"status", "neterr"}
    /\ IsNext(dep.at)
    /\ \E b \in BodyBehaviours, k \in RandomSamples :
         LET s0 == Observe([Cur EXCEPT !.now = dep.at, !.dep = NoDep], dep.kind, dep.status)
         IN Install(
              IF dep.kind = "status"
              THEN IF variant = "timeout"
                   THEN HandlerOnResponse(
                          [s0 EXCEPT !.returned =
                              Returned("response", dep.status, s0.retriesLeft, NoError)],
                          dep.status, b)
                   ELSE FetchResolved(s0, dep.status, b, k)
              ELSE IF variant = "timeout"
                   THEN HandlerCatch(
                          [s0 EXCEPT !.returned = Returned("throw", 0, s0.retriesLeft, FetchFailed)],
                          FetchFailed)
                   ELSE CatchBlock(s0, FetchFailed, k))
    /\ UNCHANGED <<variant, header, traceId, dependencyUrl>>
    /\ UNCHANGED <<concVars, computeVars, echoVars>>

\* setTimeout(() => controller.abort(), ...) fires
TimerFires ==
    /\ \E t \in timers, k \in RandomSamples :
         /\ IsNext(t.at)
         /\ LET s0 == [Cur EXCEPT !.now = t.at, !.timers = @ \ {t}]
                s1 == IF t.owner = 0 THEN [s0 EXCEPT !.aborted = TRUE] ELSE s0
                mine == t.owner = 0 \/ t.owner = attemptOf(retriesLeft)
            IN Install(
                 IF pc = "fetching" /\ mine
                 THEN LET s2 == Observe([s1 EXCEPT !.dep = NoDep], "timeout", 0)
                      IN IF variant = "timeout"
                         THEN HandlerCatch(
                                [s2 EXCEPT !.returned =
                                    Returned("throw", 0, s2.retriesLeft, AbortError)],
                                AbortError)
                         ELSE CatchBlock(s2, AbortError, k)
                 ELSE IF pc = "body" /\ t.owner = 0
                 THEN HandlerCatch([s1 EXCEPT !.body = NoBody, !.bodyResult = "aborted"],
                                   AbortError)
                 ELSE s1)
    /\ UNCHANGED <<variant, header, traceId, dependencyUrl>>
    /\ UNCHANGED <<concVars, computeVars, echoVars>>

\* variant of SleepEnds: sleep(delay) is not awaited, the retry goes out at once
SleepEndsNotAwaited ==
    /\ pc = "sleeping"
    /\ \E d \in DepBehaviours, k \in RandomSamples :
         Install(fetchWithRetry(Cur, retriesLeft - 1, d, k))
    /\ UNCHANGED <<variant, header, traceId, dependencyUrl>>
    /\ UNCHANGED <<concVars, computeVars, echoVars>>

\* the sleep(delay) of the catch block ends: return fetchWithRetry(url, options, retriesLeft - 1)
SleepEnds ==
    /\ pc = "sleeping"
    /\ IsNext(sleepUntil)
    /\ \E d \in DepBehaviours, k \in RandomSamples :
         Install(fetchWithRetry([Cur EXCEPT !.now = sleepUntil], retriesLeft - 1, d, k))
    /\ UNCHANGED <<variant, header, traceId, dependencyUrl>>
    /\ UNCHANGED <<concVars, computeVars, echoVars>>

\* await response.json() settles: parsed, or rejected for an unparsable body
BodySettles ==
    /\ pc = "body"
    /\ body.kind \in {"json", "garbage"}
    /\ IsNext(body.at)
    /\ LET s0 == [Cur EXCEPT !.now = body.at, !.body = NoBody]
       IN Install(IF body.kind = "json"
                  THEN HandlerFinish([s0 EXCEPT !.bodyResult = "parsed"], DataInfo)
                  ELSE HandlerCatch([s0 EXCEPT !.bodyResult = "unparsable"], BodySyntaxError))
    /\ UNCHANGED <<variant, header, traceId, dependencyUrl>>
    /\ UNCHANGED <<concVars, computeVars, echoVars>>

Next ==
    \/ Middleware
    \/ HandlerStart
    \/ FetchSettles
    \/ TimerFires
    \/ SleepEnds
    \/ BodySettles

Spec == Init /\ [][Next]_allVars

\* the event loop runs a callback that is due
FairSpec == Spec /\ WF_allVars(Next)

TypeOK ==
    /\ variant \in Variants
    /\ header \in InboundHeaders
    /\ traceId \in InboundHeaders \cup UUIDs
    /\ pc \in {"idle", "routed", "fetching", "sleeping", "body", "done"}
    /\ now \in Nat
    /\ retriesLeft \in 0..DefaultRetriesLeft
    /\ attempts \in Nat
    /\ sent \in 0..1
    /\ aborted \in BOOLEAN

(* ------------------------------ claims --------------------------------- *)

\* C1 (as stated): one call of fetchWithRetry with its default arguments
\* dispatches at most 3 fetch attempts.
C1_AtMostThreeAttempts ==
    variant \in RetryVariants => attempts <= MAX_RETRIES

\* C1 (amended): one call of fetchWithRetry with its default arguments makes
\* at most 1 + 3 fetch attempts, the first one and MAX_RETRIES retries.
C1_AttemptsBounded ==
    variant \in RetryVariants => attempts <= 1 + 3

C1_Witness ==
    /\ variant \in {"retries", "hardened"}
    /\ attempts = 4
    /\ pc = "done"

\* C2: every request eventually gets its response, whatever the dependency
\* does, in every service variant.
C2_EventuallyResponds == <>(pc = "done" /\ sent = 1)

\* C3: the handler sends at most one response; when it has finished it has
\* sent exactly one, with status 200 and with message, received and
\* environment populated, whatever the dependency call came to.
C3_GracefulDegradation ==
    /\ sent <= 1
    /\ (sent = 1) = (pc = "done")
    /\ pc = "done" =>
         /\ resStatus = 200
         /\ resBody.message # ""
         /\ resBody.received # ""
         /\ resBody.environment # ""
         /\ resBody.enrichment = dependencyInfo

C3_Witness ==
    /\ variant \in {"retries", "timeout"}
    /\ pc = "done"
    /\ sent = 1
    /\ outcomes # << >>
    /\ outcomes[Len(outcomes)].kind \in {"neterr", "timeout"}
    /\ resBody.enrichment.tag = "error"

\* C4 (as stated): a dependency that answers every attempt with a 5xx gets
\* exactly 3 attempts from one call.
C4_ThreeAttemptsOn5xx ==
    (/\ variant \in RetryVariants
     /\ pc = "done"
     /\ \A i \in 1..Len(outcomes) :
          outcomes[i].kind = "status" /\ outcomes[i].status \div 100 = 5)
    => attempts = MAX_RETRIES

\* C4 (amended): a dependency that answers every attempt with a 5xx gets
\* exactly 4 attempts from one call, with a backoff sleep between each pair
\* of consecutive attempts (3 sleeps), and the handler then sends the
\* dependency error of the last attempt as enrichment, not the timeout one.
C4_FourAttemptsOn5xx ==
    (/\ variant \in RetryVariants
     /\ pc = "done"
     /\ \A i \in 1..Len(outcomes) :
          outcomes[i].kind = "status" /\ outcomes[i].status \div 100 = 5)
    => /\ attempts = 4
       /\ Len(outcomes) = 4
       /\ Len(delays) = 3
       /\ returned.kind = "throw"
       /\ resBody.enrichment.tag = "error"
       /\ resBody.enrichment.error = "Server returned 500"
       /\ ~resBody.enrichment.degraded

C4_Witness ==
    /\ variant = "retries"
    /\ pc = "done"
    /\ Len(outcomes) = 4
    /\ \A i \in 1..4 : outcomes[i].kind = "status" /\ outcomes[i].status = 500

\* C5: a 4xx response is never retried: the attempt that got it is the last
\* one, no sleep follows it, and the response is handed to the handler; a
\* 4xx on the first attempt gives exactly one attempt.
C5_ClientErrorNotRetried ==
    \A i \in 1..Len(outcomes) :
        (outcomes[i].kind = "status" /\ outcomes[i].status \div 100 = 4)
        => /\ i = Len(outcomes)
           /\ attempts = i
           /\ Len(delays) = i - 1
           /\ pc = "done"
           /\ returned.kind = "response"
           /\ returned.status = outcomes[i].status
           /\ returned.attempt = i
           /\ resBody.enrichment = ErrorInfo("Dependency returned 404")

C5_Witness ==
    /\ variant \in {"retries", "hardened"}
    /\ Len(outcomes) = 3
    /\ outcomes[3].kind = "status"
    /\ outcomes[3].status = 404
    /\ pc = "done"

\* C6: a 2xx answer to the first attempt makes fetchWithRetry return that
\* response after exactly one attempt and without any sleep.
C6_FirstAttemptSuccess ==
    (/\ variant \in RetryVariants
     /\ Len(outcomes) >= 1
     /\ outcomes[1].kind = "status"
     /\ outcomes[1].status \div 100 = 2)
    => /\ attempts = 1
       /\ Len(outcomes) = 1
       /\ delays = << >>
       /\ returned.kind = "response"
       /\ returned.status = outcomes[1].status
       /\ returned.attempt = 1
       /\ pc \in {"body", "done"}

C6_Witness ==
    /\ variant = "retries"
    /\ Len(outcomes) = 1
    /\ outcomes[1].kind = "status"
    /\ outcomes[1].status = 200
    /\ pc = "body"
    /\ returned.kind = "response"

\* C7: the timeout-only handler makes exactly one outbound attempt per
\* request; once the 1000 ms abort has fired the handler has answered, at
\* 1000 ms, with {error: upstream_dependency_timeout, degraded: true}, and
\* no data of the dependency is in the enrichment.
C7_TimeoutAuthoritative ==
    variant = "timeout" =>
        /\ attempts <= 1
        /\ pc \in {"fetching", "body", "done"} => attempts = 1
        /\ aborted =>
             /\ pc = "done"
             /\ respondedAt = 1000
             /\ resBody.enrichment = TimeoutInfo
             /\ resBody.enrichment.tag # "data"

C7_Witness ==
    /\ variant = "timeout"
    /\ aborted
    /\ pc = "done"
    /\ outcomes = <<[attempt |-> 1, kind |-> "timeout", status |-> 0]>>

\* C8: attempts 1 and 2 fail (5xx or transport error) and attempt 3 is
\* answered 2xx: fetchWithRetry returns the response of attempt 3, it has
\* written exactly 3 log lines, and it slept twice, first 100..149 ms and
\* then 200..249 ms.
C8_SuccessOnThirdAttempt ==
    (/\ variant \in RetryVariants
     /\ Len(outcomes) = 3
     /\ \A i \in 1..2 :
          \/ outcomes[i].kind = "neterr"
          \/ outcomes[i].kind = "status" /\ outcomes[i].status \div 100 = 5
     /\ outcomes[3].kind = "status"
     /\ outcomes[3].status \div 100 = 2)
    => /\ returned.kind = "response"
       /\ returned.attempt = 3
       /\ returned.status = outcomes[3].status
       /\ attempts = 3
       /\ Cardinality({i \in 1..Len(console) : console[i].who = "fetchWithRetry"}) = 3
       /\ Len(delays) = 2
       /\ delays[1] >= 100 /\ delays[1] < 150
       /\ delays[2] >= 200 /\ delays[2] < 250

C8_Witness ==
    /\ variant = "retries"
    /\ Len(outcomes) = 3
    /\ outcomes[1].kind = "status" /\ outcomes[1].status = 500
    /\ outcomes[2].kind = "neterr"
    /\ outcomes[3].kind = "status" /\ outcomes[3].status = 200
    /\ returned.kind = "response"
    /\ delays[1] = 149

\* C9: the n-th sleep of a call lasts 100 * 2^(n-1) + j ms with an integer
\* 0 <= j < 50, it starts when the delay is computed, and a retry is
\* dispatched only at the end of such a sleep.
C9_BackoffDelay ==
    /\ [](/\ \A n \in 1..Len(delays) :
               /\ delays[n] - 100 * 2^(n - 1) >= 0
               /\ delays[n] - 100 * 2^(n - 1) < 50
          /\ variant \in RetryVariants => Len(delays) >= attempts - 1)
    /\ [][/\ Len(delays') # Len(delays) =>
               /\ Len(delays') = Len(delays) + 1
               /\ pc' = "sleeping"
               /\ sleepUntil' = now' + delays'[Len(delays')]
          /\ (attempts' # attempts /\ attempts >= 1) =>
               /\ pc = "sleeping"
               /\ now' = sleepUntil
               /\ attempts' = attempts + 1
               /\ Len(delays) = attempts]_vars

C9_Witness ==
    /\ variant = "retries"
    /\ Len(delays) = 3
    /\ delays[3] = 449
    /\ attempts = 4

\* C10: the trace-id middleware sets req.traceId to a non-empty inbound
\* X-Request-ID, to a generated id when the header is absent or empty, and
\* req.traceId does not change afterwards.
C10_TraceIdFromHeader ==
    /\ []((variant = "tracing" /\ pc # "idle") =>
             /\ header \notin {Undefined, ""} => traceId = header
             /\ header \in {Undefined, ""} => traceId \in UUIDs)
    /\ [][pc # "idle" => traceId' = traceId]_vars

C10_Witness ==
    /\ variant = "tracing"
    /\ pc = "done"
    /\ header = ""
    /\ traceId \in UUIDs

\* C12: every call of the tracing log-service that reaches echo-service is
\* logged there with the traceId log-service logged for the inbound request;
\* echo-service logs "unknown" only for a call without X-Request-ID.
C12_EndToEndCorrelation ==
    /\ variant = "tracing" =>
         \A i \in 1..Len(echoConsole) :
             /\ console[1].who = "middleware"
             /\ echoConsole[i].traceId = console[1].traceId
             /\ echoConsole[i].traceId = traceId
    /\ \A i \in 1..Len(echoConsole) :
         echoConsole[i].traceId = "unknown" => echoConsole[i].received = Undefined

C12_Witness ==
    /\ variant = "tracing"
    /\ header = Undefined
    /\ Len(echoConsole) = 2
    /\ echoConsole[2].traceId = traceId
    /\ traceId \in UUIDs

\* C13 (as stated): when every attempt of log-service-hardened times out,
\* the call blocks its caller for at most 3 * (5000 + 449) ms.
C13_BlockedAtMostThreeWindows ==
    (/\ variant = "hardened"
     /\ pc = "done"
     /\ outcomes # << >>
     /\ \A i \in 1..Len(outcomes) : outcomes[i].kind = "timeout")
    => respondedAt <= 3 * (5000 + 449)

\* C13 (amended): when every attempt of log-service-hardened times out, each
\* of the 4 attempts is ended by its abort after 5000 ms, and the call blocks
\* its caller for at most 4 * (5000 + 449) ms.
C13_BlockedAtMostFourWindows ==
    (/\ variant = "hardened"
     /\ pc = "done"
     /\ outcomes # << >>
     /\ \A i \in 1..Len(outcomes) : outcomes[i].kind = "timeout")
    => /\ attempts = 4
       /\ returned.kind = "throw"
       /\ returned.name = "AbortError"
       /\ respondedAt >= 4 * 5000
       /\ respondedAt <= 4 * (5000 + 449)

C13_Witness ==
    /\ variant = "hardened"
    /\ pc = "done"
    /\ Len(outcomes) = 4
    /\ \A i \in 1..4 : outcomes[i].kind = "timeout"
    /\ respondedAt = 20847

\* C14 (as stated): fetchWithRetry never raises an exception to the route
\* handler for a dependency-side failure.
C14_NeverThrows ==
    variant \in RetryVariants => returned.kind # "throw"

\* C14 (amended): fetchWithRetry raises to the route handler only when the
\* retries are exhausted, it raises the error of the 4th failed attempt, and
\* the handler catches it and answers 200 with an error enrichment.
C14_ThrowsOnlyOnExhaustion ==
    (variant \in RetryVariants /\ returned.kind = "throw")
    => /\ retriesLeft = 0
       /\ attempts = 4
       /\ Len(outcomes) = 4
       /\ \/ outcomes[4].kind \in {"neterr", "timeout", "preaborted", "badurl"}
          \/ outcomes[4].kind = "status" /\ outcomes[4].status \div 100 = 5
       /\ pc = "done"
       /\ sent = 1
       /\ resStatus = 200
       /\ resBody.enrichment.tag = "error"

C14_Witness ==
    /\ variant = "retries"
    /\ returned.kind = "throw"
    /\ returned.name = "TypeError"
    /\ outcomes[4].kind = "neterr"
    /\ pc = "done"

\* C15: in the handlers that use a timeout, a call that ends after a last
\* attempt aborted by the timer reports the timeout enrichment, and one that
\* ends after a 5xx, a 4xx or a transport error reports a dependency error.
C15_ReasonReflectsLastOutcome ==
    (/\ variant \in {"timeout", "tracing", "hardened"}
     /\ pc = "done"
     /\ outcomes # << >>)
    => LET last == outcomes[Len(outcomes)]
       IN /\ last.kind = "timeout" => resBody.enrichment = TimeoutInfo
          /\ (\/ last.kind = "neterr"
              \/ last.kind = "status" /\ last.status \div 100 \in {4, 5})
             => /\ resBody.enrichment.tag = "error"
                /\ resBody.enrichment # TimeoutInfo

\* C16: the enrichment sent holds data of the dependency exactly when the
\* last attempt was answered 2xx and its body was parsed; otherwise it is an
\* error object without dependency data.
C16_EnrichmentOnlyOnSuccess ==
    pc = "done" =>
        /\ (resBody.enrichment.tag = "data") =
             (/\ outcomes # << >>
              /\ outcomes[Len(outcomes)].kind = "status"
              /\ outcomes[Len(outcomes)].status \div 100 = 2
              /\ bodyResult = "parsed")
        /\ resBody.enrichment.tag \in {"data", "error"}
        /\ resBody.enrichment.tag = "error" => resBody.enrichment.error # ""

C16_Witness ==
    /\ variant = "retries"
    /\ pc = "done"
    /\ outcomes[Len(outcomes)].kind = "status"
    /\ outcomes[Len(outcomes)].status = 200
    /\ bodyResult = "unparsable"
    /\ resBody.enrichment.tag = "error"

C19_SequentialAttempts ==
    /\ [](/\ Len(outcomes) <= attempts
          /\ attempts <= Len(outcomes) + 1
          /\ (attempts = Len(outcomes) + 1) = (pc = "fetching")
          /\ (dep.kind # "none") = (pc = "fetching")
          /\ \A i \in 1..Len(outcomes) : outcomes[i].attempt = i)
    /\ [][attempts' # attempts =>
            /\ attempts' = attempts + 1
            /\ MAX_RETRIES - retriesLeft' + 1 = attempts'
            /\ Len(outcomes) = attempts
            /\ attempts >= 1 =>
                 /\ pc = "sleeping"
                 /\ now' = sleepUntil
                 /\ Len(delays) = attempts]_vars

C19_Witness ==
    /\ variant = "hardened"
    /\ pc = "fetching"
    /\ attempts = 4
    /\ Len(outcomes) = 3
    /\ retriesLeft = 0

\* C20: in part_003 and log-service-hardened every attempt has its own full
\* timeout window, counted from the start of that attempt, and no attempt is
\* rejected because of an abort that fired earlier.
C20_OwnTimeoutWindow ==
    variant \in {"tracing", "hardened"} =>
        /\ pc = "fetching" =>
             \E t \in timers :
                 /\ t.owner = (IF variant = "tracing" THEN 0 ELSE MAX_RETRIES - retriesLeft + 1)
                 /\ t.at = dep.started + (IF variant = "tracing" THEN 1000 ELSE 5000)
        /\ \A i \in 1..Len(outcomes) : outcomes[i].kind # "preaborted"

\* C21: in part_003, once the handler's 1000 ms abort has fired, the attempt
\* or the backoff sleep in progress is ended at once and the handler has
\* answered at that moment.
C21_CancellationEndsCall ==
    (variant = "tracing" /\ aborted) => (pc = "done" /\ respondedAt = 1000)

\* C22: every attempt of a call through fetchWithRetry, whatever its outcome,
\* has exactly one log line of fetchWithRetry that tells its attempt number
\* (or the retriesLeft it ran with) and, where the request has a trace id,
\* carries that id.
C22_OneLogLinePerAttempt ==
    (variant \in RetryVariants /\ pc = "done") =>
        \A i \in 1..Len(outcomes) :
            Cardinality({n \in 1..Len(console) :
                           /\ console[n].who = "fetchWithRetry"
                           /\ \/ console[n].attempt = i
                              \/ console[n].retriesLeft = MAX_RETRIES - i + 1
                           /\ variant = "tracing" => console[n].traceId = traceId}) = 1

\* C23: when DEPENDENCY_URL is not a valid URL, fetchWithRetry fails at the
\* first attempt: no second attempt and no backoff sleep is made.
C23_MalformedUrlNotRetried ==
    (variant \in RetryVariants /\ ~IsValidUrl(dependencyUrl))
    => /\ attempts <= 1
       /\ delays = << >>
       /\ pc # "sleeping"

\* C24: whether fetchWithRetry retries after an attempt, and how long it
\* sleeps first, is fixed by the class of the attempt's outcome and by the
\* attempt number alone: a 5xx, a transport error, an abort or a rejected
\* call at attempt i <= 3 is always followed by a sleep of
\* 100 * 2^(i-1) + (0..49) ms, at attempt 4 it is always thrown, and a 2xx or
\* 4xx is always returned, whatever happened before and whatever the clock.
C24_RetryDecisionPure ==
    variant \in RetryVariants =>
        \A i \in 1..Len(outcomes) :
            LET o == outcomes[i]
                retryable == \/ o.kind \in {"neterr", "timeout", "preaborted", "badurl"}
                             \/ o.kind = "status" /\ o.status >= 500
            IN /\ (retryable /\ i <= MAX_RETRIES) =>
                    /\ Len(delays) >= i
                    /\ delays[i] >= BackoffBase * Pow2(i - 1)
                    /\ delays[i] < BackoffBase * Pow2(i - 1) + JitterCeiling
               /\ (retryable /\ i > MAX_RETRIES) =>
                    /\ i = Len(outcomes)
                    /\ Len(delays) = i - 1
                    /\ returned.kind = "throw"
               /\ ~retryable =>
                    /\ i = Len(outcomes)
                    /\ Len(delays) = i - 1
                    /\ returned.kind = "response"

C24_Witness ==
    /\ variant = "hardened"
    /\ Len(outcomes) = 4
    /\ outcomes[1].kind = "neterr"
    /\ outcomes[2].kind = "status"
    /\ outcomes[2].status = 500
    /\ outcomes[3].kind = "timeout"
    /\ outcomes[4].kind = "neterr"
    /\ now > 5000
    /\ delays = <<100, 249, 400>>
    /\ returned.kind = "throw"

\* C25: no abort timer outlives what it was armed for: a timer of the handler
\* is pending only while the handler has not answered, and a timer of an
\* attempt only while that attempt's fetch is in flight.
C25_NoTimerLeftBehind ==
    variant \in {"timeout", "tracing", "hardened"} =>
        \A t \in timers :
            IF t.owner = 0
            THEN pc # "done"
            ELSE pc = "fetching" /\ t.owner = MAX_RETRIES - retriesLeft + 1

\* C26: in part_003, after the handler's abort at 1000 ms no attempt reaches
\* the dependency: every later fetch is rejected at once with AbortError, it
\* is made only when the backoff sleep before it has run to its end, the
\* AbortError is retried like any failure, and the handler ends with the
\* timeout enrichment.
C26_AfterTheAbort ==
    /\ []((variant = "tracing" /\ aborted) =>
            /\ pc \in {"sleeping", "done"}
            /\ dep = NoDep
            /\ pc = "done" => resBody.enrichment = TimeoutInfo
            /\ (pc = "done" /\ bodyResult # "aborted") =>
                 /\ attempts = 1 + MAX_RETRIES
                 /\ Len(delays) = MAX_RETRIES
                 /\ returned.kind = "throw"
                 /\ returned.name = "AbortError")
    /\ [][/\ (variant = "tracing" /\ aborted /\ attempts' = attempts + 1) =>
               /\ pc = "sleeping"
               /\ now' = sleepUntil
               /\ outcomes'[attempts'].kind = "preaborted"
               /\ echoConsole' = echoConsole
          /\ (variant = "tracing" /\ ~aborted /\ aborted'
                /\ pc = "fetching" /\ retriesLeft > 0) =>
               /\ pc' = "sleeping"
               /\ Len(delays') = Len(delays) + 1
               /\ sent' = 0]_vars

C26_Witness ==
    /\ variant = "tracing"
    /\ aborted
    /\ pc = "done"
    /\ Len(outcomes) = 4
    /\ outcomes[1].kind = "status"
    /\ outcomes[2].kind = "timeout"
    /\ outcomes[3].kind = "preaborted"
    /\ outcomes[4].kind = "preaborted"
    /\ respondedAt = 1000 + 249 + 449
    /\ Len(echoConsole) = 2

C28_DelaysIncrease ==
    variant \in RetryVariants =>
        /\ Len(delays) <= MAX_RETRIES
        /\ \A i \in 1..Len(delays) :
             /\ delays[i] - BackoffBase * Pow2(i - 1) >= 0
             /\ delays[i] - BackoffBase * Pow2(i - 1) < BackoffBase
             /\ i > 1 => delays[i - 1] < delays[i]
        /\ (IF Len(delays) >= 1 THEN delays[1] ELSE 0)
           + (IF Len(delays) >= 2 THEN delays[2] ELSE 0)
           + (IF Len(delays) >= 3 THEN delays[3] ELSE 0) <= 847

C28_Witness ==
    /\ variant = "retries"
    /\ delays = <<149, 249, 449>>
    /\ pc = "done"

(* -------------- part_003 under concurrent inbound requests -------------- *)
(* Each request is taken through the same middleware, handler and          *)
(* fetchWithRetry code as above; the requests interleave at every await.    *)
(* No clock is kept here: a pending timer, fetch, sleep or body read may    *)
(* complete at any moment.                                                  *)

\* variant of retryOptionsOf: the recursive call is made without the options
retryOptionsOfEmpty(opts) == NoOptions

\* return fetchWithRetry(url, options, retriesLeft - 1): the same options object
retryOptionsOf(opts) == opts

\* the handler's catch and res.json(): finally { clearTimeout(timeoutId) };
\* of the enrichment only data / error is kept per request
ConcRespond(r, info) ==
    [r EXCEPT !.pc = "done", !.timerArmed = FALSE, !.enrichment = info.tag]

\* catch (error) { if (retriesLeft === 0) throw error; ...; await sleep(delay) }
ConcCatchBlock(r, err) ==
    IF NoMoreRetries(r.retriesLeft)
    THEN ConcRespond(r, IF err.name = "AbortError" THEN TimeoutInfo ELSE ErrorInfo(err.message))
    ELSE [r EXCEPT !.pc = "sleeping"]

\* fetch(url, options) with the headers and the signal of options
ConcFetch(r) ==
    LET r1 == [r EXCEPT !.sent = Append(@, r.options.xRequestId)]
    IN IF r.options.signal /\ r.aborted
       THEN ConcCatchBlock(r1, AbortError)
       ELSE [r1 EXCEPT !.pc = "fetching"]

\* fetchWithRetry(url, options, retriesLeft)
ConcFetchWithRetry(r, opts, n) == ConcFetch([r EXCEPT !.options = opts, !.retriesLeft = n])

ConcInit ==
    /\ variant = "tracing"
    /\ header = Undefined
    /\ dependencyUrl = DefaultDependencyUrl
    /\ MainStart
    /\ ComputeIdle
    /\ EchoIdle
    /\ cUuids = {}
    /\ \E hs \in [1..NumRequests -> InboundHeaders] :
         cReq = [i \in 1..NumRequests |->
                   [header |-> hs[i], traceId |-> Undefined, pc |-> "idle",
                    retriesLeft |-> DefaultRetriesLeft, options |-> NoOptions,
                    aborted |-> FALSE, timerArmed |-> FALSE, sent |-> << >>,
                 enrichment |-> NullInfo.tag]]

\* the trace-id middleware runs for request i
ConcMiddleware(i) ==
    /\ cReq[i].pc = "idle"
    /\ \E uuid \in UUIDs \ cUuids :
         LET id == traceIdOf(cReq[i].header, uuid)
         IN /\ cReq' = [cReq EXCEPT ![i].traceId = id, ![i].pc = "routed"]
            /\ cUuids' = IF id = uuid THEN cUuids \cup {uuid} ELSE cUuids
    /\ UNCHANGED <<vars, computeVars, echoVars>>

\* the route handler of request i runs up to its first await
ConcHandlerStart(i) ==
    /\ cReq[i].pc = "routed"
    /\ cReq' = [cReq EXCEPT ![i] =
                  ConcFetchWithRetry([@ EXCEPT !.timerArmed = TRUE],
                                     [signal |-> TRUE, xRequestId |-> cReq[i].traceId],
                                     DefaultRetriesLeft)]
    /\ UNCHANGED <<vars, cUuids, computeVars, echoVars>>

\* the fetch of request i is answered or fails in transport
ConcFetchSettles(i) ==
    /\ cReq[i].pc = "fetching"
    /\ \E d \in {b \in DepBehaviours : b.kind # "hang" /\ b.latency = 20} :
         cReq' = [cReq EXCEPT ![i] =
                    IF d.kind = "status" /\ IsOk(d.status)
                    THEN [@ EXCEPT !.pc = "body"]
                    ELSE IF d.kind = "status" /\ IsClientError(d.status)
                    THEN ConcRespond(@, ErrorInfo(DependencyReturned(d.status)))
                    ELSE ConcCatchBlock(@, IF d.kind = "status"
                                           THEN ServerError(d.status) ELSE FetchFailed)]
    /\ UNCHANGED <<vars, cUuids, computeVars, echoVars>>

\* the 1000 ms timer of request i fires: controller.abort()
ConcTimerFires(i) ==
    /\ cReq[i].timerArmed
    /\ cReq' = [cReq EXCEPT ![i] =
                  LET r == [@ EXCEPT !.timerArmed = FALSE, !.aborted = TRUE]
                  IN IF @.pc = "fetching" THEN ConcCatchBlock(r, AbortError)
                     ELSE IF @.pc = "body" THEN ConcRespond(r, TimeoutInfo)
                     ELSE r]
    /\ UNCHANGED <<vars, cUuids, computeVars, echoVars>>

\* the sleep of request i ends: the recursive fetchWithRetry call
ConcSleepEnds(i) ==
    /\ cReq[i].pc = "sleeping"
    /\ cReq' = [cReq EXCEPT ![i] =
                  ConcFetchWithRetry(@, retryOptionsOf(@.options), @.retriesLeft - 1)]
    /\ UNCHANGED <<vars, cUuids, computeVars, echoVars>>

\* response.json() of request i settles and the handler answers
ConcBodySettles(i) ==
    /\ cReq[i].pc = "body"
    /\ \E b \in {"json", "garbage"} :
         cReq' = [cReq EXCEPT ![i] =
                    ConcRespond(@, IF b = "json" THEN DataInfo
                                   ELSE ErrorInfo(BodySyntaxError.message))]
    /\ UNCHANGED <<vars, cUuids, computeVars, echoVars>>

ConcNext ==
    \E i \in 1..NumRequests :
        \/ ConcMiddleware(i)
        \/ ConcHandlerStart(i)
        \/ ConcFetchSettles(i)
        \/ ConcTimerFires(i)
        \/ ConcSleepEnds(i)
        \/ ConcBodySettles(i)

ConcSpec == ConcInit /\ [][ConcNext]_allVars

\* C11: under any interleaving of concurrent requests, every fetch made for a
\* request, first attempt and retries alike, carries that request's own
\* traceId as X-Request-ID, also when the requests came with the same header.
C11_OwnTraceIdOnEveryAttempt ==
    \A i \in 1..NumRequests :
        /\ \A n \in 1..Len(cReq[i].sent) : cReq[i].sent[n] = cReq[i].traceId
        /\ cReq[i].pc \notin {"idle", "routed"} => Len(cReq[i].sent) >= 1
        /\ (cReq[i].pc # "idle" /\ cReq[i].header \notin {Undefined, ""})
           => cReq[i].traceId = cReq[i].header
        /\ \A j \in 1..NumRequests :
             (/\ j # i
              /\ cReq[j].pc # "idle"
              /\ cReq[i].pc # "idle"
              /\ cReq[j].traceId # cReq[i].traceId)
             => \A n \in 1..Len(cReq[i].sent) : cReq[i].sent[n] # cReq[j].traceId

C11_Witness ==
    /\ cReq[1].header = "abc"
    /\ cReq[2].header = "abc"
    /\ cReq[1].pc = "fetching"
    /\ cReq[2].pc = "sleeping"
    /\ cReq[1].sent = <<"abc", "abc", "abc">>
    /\ cReq[2].sent = <<"abc", "abc">>

(* --------------------------- compute-service ---------------------------- *)
(* GET /compute under concurrent requests.  The event loop takes a new      *)
(* request in its poll phase, runs the setImmediate callbacks that were     *)
(* scheduled before the check phase began, in the order they were           *)
(* scheduled, and leaves those scheduled meanwhile to the next check phase. *)

\* req.query.work: missing, not a number, or the digits of an integer
WorkQueries == {Undefined, "abc", "-1", "0", "1", "2", "3"}

NotANumber == [nan |-> TRUE, value |-> 0]

\* parseInt(req.query.work)
parseInt(q) ==
    CASE q = "-1" -> [nan |-> FALSE, value |-> 0 - 1]
      [] q = "0" -> [nan |-> FALSE, value |-> 0]
      [] q = "1" -> [nan |-> FALSE, value |-> 1]
      [] q = "2" -> [nan |-> FALSE, value |-> 2]
      [] q = "3" -> [nan |-> FALSE, value |-> 3]
      [] OTHER -> NotANumber

\* const workUnits = parseInt(req.query.work) || 100
workUnitsOf(q) ==
    LET n == parseInt(q)
    IN IF n.nan \/ n.value = 0 THEN DefaultWorkUnits ELSE n.value

\* variant of scheduleImmediate: the continuation is queued ahead of the
\* waiting callbacks, as a microtask would be
scheduleImmediateFirst(q, i) == <<i>> \o q

\* await new Promise(resolve => setImmediate(resolve))
scheduleImmediate(q, i) == Append(q, i)

\* if (remaining <= 0) return
WorkDone(remaining) == remaining <= 0

ComputeInit ==
    /\ variant = "hardened"
    /\ header = Undefined
    /\ dependencyUrl = DefaultDependencyUrl
    /\ MainStart
    /\ ConcIdle
    /\ ComputeIdle
    /\ EchoIdle

\* app.get('/compute', ...) runs for a new request up to its first await
ComputeArrive(i) ==
    /\ comp[i].state = "none"
    /\ immediateQueue = << >>
    /\ \E q \in WorkQueries :
         LET w == workUnitsOf(q)
         IN IF WorkDone(w)
            THEN /\ comp' = [comp EXCEPT ![i] = [state |-> "done", workUnits |-> w,
                                                  remaining |-> w, chunks |-> 0]]
                 /\ UNCHANGED <<pendingImmediates, lastChunk>>
            ELSE /\ comp' = [comp EXCEPT ![i] = [state |-> "waiting", workUnits |-> w,
                                                  remaining |-> w, chunks |-> 1]]
                 /\ pendingImmediates' = scheduleImmediate(pendingImmediates, i)
                 /\ lastChunk' = i
    /\ UNCHANGED <<immediateQueue, vars, concVars, echoVars>>

\* the event loop enters its check phase
CheckPhase ==
    /\ immediateQueue = << >>
    /\ pendingImmediates # << >>
    /\ immediateQueue' = pendingImmediates
    /\ pendingImmediates' = << >>
    /\ UNCHANGED <<comp, lastChunk, vars, concVars, echoVars>>

\* the next setImmediate callback runs: doWork(remaining - 1), then res.json
RunImmediate ==
    /\ immediateQueue # << >>
    /\ LET i == Head(immediateQueue)
           left == comp[i].remaining - 1
       IN /\ immediateQueue' = Tail(immediateQueue)
          /\ IF WorkDone(left)
             THEN /\ comp' = [comp EXCEPT ![i].state = "done", ![i].remaining = left]
                  /\ UNCHANGED <<pendingImmediates, lastChunk>>
             ELSE /\ comp' = [comp EXCEPT ![i].remaining = left, ![i].chunks = @ + 1]
                  /\ pendingImmediates' = scheduleImmediate(pendingImmediates, i)
                  /\ lastChunk' = i
    /\ UNCHANGED <<vars, concVars, echoVars>>

ComputeNext ==
    \/ \E i \in 1..NumRequests : ComputeArrive(i)
    \/ CheckPhase
    \/ RunImmediate

ComputeSpec == ComputeInit /\ [][ComputeNext]_allVars

\* C18: concurrent /compute requests run interleaved: a request that has
\* just run a chunk does not run the next chunk while another request is
\* waiting for its turn, every waiting request is queued exactly once, and a
\* request that finishes has run exactly workUnits chunks.
C18_ChunksInterleave ==
    /\ [](\A i \in 1..NumRequests :
            /\ comp[i].state = "waiting" =>
                 /\ Cardinality({n \in 1..Len(immediateQueue) : immediateQueue[n] = i})
                    + Cardinality({n \in 1..Len(pendingImmediates) : pendingImmediates[n] = i})
                    = 1
                 /\ comp[i].chunks = comp[i].workUnits - comp[i].remaining + 1
            /\ (comp[i].state = "done" /\ comp[i].workUnits > 0)
               => comp[i].chunks = comp[i].workUnits)
    /\ [][\A i \in 1..NumRequests :
            (comp'[i].chunks = comp[i].chunks + 1 /\ lastChunk = i)
            => \A j \in 1..NumRequests : j # i => comp[j].state # "waiting"]_allVars

C18_Witness ==
    /\ comp[1].state = "waiting"
    /\ comp[2].state = "waiting"
    /\ comp[1].chunks = 3
    /\ comp[2].chunks = 2
    /\ lastChunk = 2
    /\ comp[1].workUnits = 100

(* -------------------------- flaky echo-service -------------------------- *)
(* One request is followed through the middleware and routes of part_002   *)
(* in the order of their app.use / app.get / app.post calls.                *)

\* process.env.SIMULATE_DELAY_MS: not set, or the digits of a number
EnvSimulateDelay == {Undefined, "0", "200"}

\* Number(process.env.SIMULATE_DELAY_MS ?? 0)
simulateDelayOf(env) ==
    CASE env = "200" -> 200
      [] OTHER -> 0

EchoMethods == {"GET", "POST"}

EchoPaths == {"/metrics", "/healthz", "/info", "/config", "/echo", "/nope"}

\* the request body as express.json() finds it
EchoBodies(method) == IF method = "POST" THEN {"json", "malformed"} ELSE {"none"}

\* variant of MiddlewareChain: the chaos middleware is registered before /metrics
MiddlewareChainChaosFirst ==
    <<"json", "count", "chaos", "metrics", "urlencoded", "logging", "delay", "routes">>

\* the order of app.use(...) and of the routes in part_002
MiddlewareChain ==
    <<"json", "count", "metrics", "urlencoded", "logging", "chaos", "delay", "routes">>

\* app.get("/healthz"), app.get("/info"), app.get("/config"), app.post("/echo")
EchoRouteMatches(method, path) ==
    \/ method = "GET" /\ path \in {"/healthz", "/info", "/config"}
    \/ method = "POST" /\ path = "/echo"

\* Math.random() < FLAKY_RATE, Math.random() = k / RandomResolution
ChaosStrikes(k) == k * 100 < FLAKY_RATE_PERCENT * RandomResolution

\* the middleware or route that has control of the request
EchoAt(name) == echo.stage = "running" /\ MiddlewareChain[echo.at] = name

\* the middleware has run and calls next()
EchoCallNext(e, name) == [e EXCEPT !.trail = Append(@, name), !.at = @ + 1]

\* the response is sent; res.on('finish') counts it unless the path is
\* /metrics or /healthz
EchoRespond(e, name, status) ==
    [e EXCEPT !.trail = Append(@, name),
              !.stage = "responded",
              !.responses = @ + 1,
              !.status = status,
              !.counted = IF e.finishListener /\ e.path # "/metrics" /\ e.path # "/healthz"
                          THEN @ + 1 ELSE @]

EchoInit ==
    /\ variant = "hardened"
    /\ header = Undefined
    /\ dependencyUrl = DefaultDependencyUrl
    /\ MainStart
    /\ ConcIdle
    /\ ComputeIdle
    /\ \E method \in EchoMethods, path \in EchoPaths, env \in EnvSimulateDelay :
         \E reqBody \in EchoBodies(method) :
            echo = EchoRequest(method, path, reqBody, simulateDelayOf(env))

\* app.use(express.json({ limit: "1mb" })): an unparsable body is answered 400
EchoJson ==
    /\ EchoAt("json")
    /\ echo' = IF echo.body = "malformed"
               THEN EchoRespond(echo, "json", 400)
               ELSE EchoCallNext(echo, "json")
    /\ UNCHANGED <<vars, concVars, computeVars>>

\* the counting middleware: res.on('finish', ...); next()
EchoCount ==
    /\ EchoAt("count")
    /\ echo' = EchoCallNext([echo EXCEPT !.finishListener = TRUE], "count")
    /\ UNCHANGED <<vars, concVars, computeVars>>

\* app.get('/metrics'): starts await register.metrics(), or is passed over
EchoMetrics ==
    /\ EchoAt("metrics")
    /\ echo' = IF echo.method = "GET" /\ echo.path = "/metrics"
               THEN [echo EXCEPT !.stage = "metrics"]
               ELSE [echo EXCEPT !.at = @ + 1]
    /\ UNCHANGED <<vars, concVars, computeVars>>

\* res.end(await register.metrics())
EchoMetricsDone ==
    /\ echo.stage = "metrics"
    /\ echo' = EchoRespond(echo, "metrics", 200)
    /\ UNCHANGED <<vars, concVars, computeVars>>

\* app.use(express.urlencoded({ extended: true }))
EchoUrlencoded ==
    /\ EchoAt("urlencoded")
    /\ echo' = EchoCallNext(echo, "urlencoded")
    /\ UNCHANGED <<vars, concVars, computeVars>>

\* the logging middleware: console.log(...); next()
EchoLogging ==
    /\ EchoAt("logging")
    /\ echo' = EchoCallNext([echo EXCEPT !.logged = @ + 1], "logging")
    /\ UNCHANGED <<vars, concVars, computeVars>>

\* the chaos middleware: return res.status(500).json(...) or next()
EchoChaos ==
    /\ EchoAt("chaos")
    /\ \E k \in RandomSamples :
         echo' = IF ChaosStrikes(k)
                 THEN EchoRespond([echo EXCEPT !.logged = @ + 1], "chaos", 500)
                 ELSE EchoCallNext(echo, "chaos")
    /\ UNCHANGED <<vars, concVars, computeVars>>

\* the latency middleware: setTimeout(next, SIMULATE_DELAY_MS) or next()
EchoDelay ==
    /\ EchoAt("delay")
    /\ echo' = IF echo.delayMs > 0
               THEN [echo EXCEPT !.stage = "delaying", !.delayed = TRUE]
               ELSE EchoCallNext(echo, "delay")
    /\ UNCHANGED <<vars, concVars, computeVars>>

\* the timer of the latency middleware calls next
EchoDelayEnds ==
    /\ echo.stage = "delaying"
    /\ echo' = EchoCallNext([echo EXCEPT !.stage = "running"], "delay")
    /\ UNCHANGED <<vars, concVars, computeVars>>

\* the route handlers; a request no route matches is answered 404 by express
EchoRoutes ==
    /\ EchoAt("routes")
    /\ echo' = IF EchoRouteMatches(echo.method, echo.path)
               THEN EchoRespond(echo, "route", 200)
               ELSE EchoRespond(echo, "notfound", 404)
    /\ UNCHANGED <<vars, concVars, computeVars>>

EchoNext ==
    \/ EchoJson
    \/ EchoCount
    \/ EchoMetrics
    \/ EchoMetricsDone
    \/ EchoUrlencoded
    \/ EchoLogging
    \/ EchoChaos
    \/ EchoDelay
    \/ EchoDelayEnds
    \/ EchoRoutes

EchoSpec == EchoInit /\ [][EchoNext]_allVars

\* the event loop runs the middleware and the timers that are due
EchoFairSpec == EchoSpec /\ WF_allVars(EchoNext)

\* C29: in the flaky echo-service every request gets exactly one response;
\* the middleware run in the order count, /metrics, logging, chaos, delay,
\* routes; a request answered by the chaos 500 was not delayed and reached no
\* route; GET /metrics is answered 200 before the logging, chaos and delay
\* middleware, so it is never failed and never delayed.
C29_EchoMiddlewareOrder ==
    /\ [](LET rank == [n \in {"json", "count", "metrics", "urlencoded", "logging",
                              "chaos", "delay", "route", "notfound"} |->
                         CASE n = "json" -> 1
                           [] n = "count" -> 2
                           [] n = "metrics" -> 3
                           [] n = "urlencoded" -> 4
                           [] n = "logging" -> 5
                           [] n = "chaos" -> 6
                           [] n = "delay" -> 7
                           [] OTHER -> 8]
              ran == {echo.trail[i] : i \in 1..Len(echo.trail)}
          IN /\ echo.responses <= 1
             /\ (echo.responses = 1) = (echo.stage = "responded")
             /\ \A i, j \in 1..Len(echo.trail) :
                  i < j => rank[echo.trail[i]] < rank[echo.trail[j]]
             /\ echo.status = 500 =>
                  /\ echo.trail[Len(echo.trail)] = "chaos"
                  /\ ~echo.delayed
                  /\ ran \cap {"delay", "route", "notfound"} = {}
             /\ ran \cap {"route", "notfound"} # {} =>
                  /\ {"count", "logging", "chaos", "delay"} \subseteq ran
                  /\ echo.delayed = (echo.delayMs > 0)
             /\ (echo.method = "GET" /\ echo.path = "/metrics") =>
                  /\ echo.status \in {0, 200}
                  /\ ~echo.delayed
                  /\ ran \cap {"logging", "chaos", "delay", "route", "notfound"} = {})
    /\ <>(echo.stage = "responded")

C29_Witness ==
    /\ echo.stage = "responded"
    /\ echo.method = "GET"
    /\ echo.path = "/healthz"
    /\ echo.status = 500
    /\ echo.delayMs = 200
    /\ echo.trail = <<"json", "count", "urlencoded", "logging", "chaos">>

====
